---- MODULE Spec2Model ----
(***************************************************************************)
(* Model of ros/src/tl_detector/tl_detector.py: the TLDetector node.       *)
(* The node keeps the latest pose, route and traffic-light list, and on    *)
(* every camera image resolves the nearest stop line ahead of the car      *)
(* (process_traffic_lights) and debounces its light state before           *)
(* publishing the stop line's waypoint index on /traffic_waypoint          *)
(* (image_cb).                                                             *)
(***************************************************************************)
EXTENDS Integers, Sequences, FiniteSets, TLC

(* ----------------------------- constants ------------------------------ *)

STATE_COUNT_THRESHOLD == 3

\* styx_msgs/TrafficLight state constants, kept symbolic.
RED == "RED"
YELLOW == "YELLOW"
GREEN == "GREEN"
UNKNOWN == "UNKNOWN"
LightStates == {RED, YELLOW, GREEN, UNKNOWN}

\* Python's None: optional values are sequences of zero or one element.
None == <<>>
Some(v) == <<v>>

(* ------------------------------- bounds ------------------------------- *)

\* state_count is an unbounded Python int; cycles stop growing it here.
MaxCount == 5
\* longest /vehicle/traffic_lights list delivered
MaxLights == 2
\* number of waypoints of the longest route delivered
RouteLen == 4

(* ------------------------------- inputs ------------------------------- *)

\* /base_waypoints messages: a straight route, and a shorter one that
\* starts off the x axis.
RouteA == [i \in 1..RouteLen |-> <<i - 1, 0>>]
RouteB == [i \in 1..(RouteLen - 1) |-> IF i = 1 THEN <<0, 1>> ELSE <<i - 1, 0>>]
Routes == {RouteA, RouteB}

\* /current_pose messages: the car's (x, y), on the x axis or beside it.
Poses == {<<x, y>> : x \in 0..(RouteLen - 1), y \in 0..1}

\* /traffic_light_config: the stop line positions, fixed for the run.
\* One stop line; two stop lines listed against the direction of travel;
\* two stop lines nearest to the same waypoint.
Configs ==
    { << <<1, 0>> >>,
      << <<RouteLen - 1, 0>>, <<1, 0>> >>,
      << <<2, 1>>, <<2, 0>> >> }

\* /vehicle/traffic_lights messages: a light is modelled by its state field.
RECURSIVE SeqsUpTo(_, _)
SeqsUpTo(S, n) ==
    IF n = 0 THEN {<<>>}
    ELSE LET shorter == SeqsUpTo(S, n - 1)
         IN  shorter \cup {Append(s, x) : s \in {t \in shorter : Len(t) = n - 1}, x \in S}
LightLists == SeqsUpTo(LightStates, MaxLights)

\* The messages delivered while the node runs its cycles (Spec): the car
\* before and after the stop line at x = 1, and every state of a single
\* light or a pair of lights of which the first one changes.
DrivenPoses == {<<0, 0>>, <<2, 0>>}
DrivenLights == SeqsUpTo(LightStates, 1) \cup {<<RED, RED>>, <<GREEN, RED>>}

(* -------------------------------- state ------------------------------- *)

VARIABLES
    pose,               \* self.pose: None or Some(<<x, y>>)
    waypoints,          \* self.waypoints: None or Some(route)
    waypoints_wrapper,  \* self.waypoints_wrapper: None or Some(route indexed)
    lights,             \* self.lights
    stop_line_positions,\* self.config['stop_line_positions']
    state,              \* self.state
    last_state,         \* self.last_state
    last_redlight_wp,   \* self.last_redlight_wp
    state_count,        \* self.state_count
    \* observation of the run (not program state)
    outcome,            \* how the latest image_cb ended: "none" before the first
    cand,               \* (light_wp, state) of the latest cycle that reached line 85
    pub,                \* what the latest image_cb published on /traffic_waypoint
    pre,                \* the stabilizer fields when the latest image_cb began
    prevEmit,           \* the latest value published before the latest image_cb
    runLen,             \* length of the current run of equal candidate states
    fresh,              \* every candidate state so far was the same
    \* callbacks running on their own threads (SpecThreads)
    route_msg,          \* the msg of a waypoints_cb between lines 61 and 62, or None
    cycle,              \* the locals of an image_cb inside process_traffic_lights, or None
    snap                \* the deliveries the latest such image_cb read from, or None

progVars == <<pose, waypoints, waypoints_wrapper, lights, stop_line_positions,
              state, last_state, last_redlight_wp, state_count>>
obsVars == <<outcome, cand, pub, pre, prevEmit, runLen, fresh>>
threadVars == <<route_msg, cycle, snap>>
vars == <<progVars, obsVars, threadVars>>

Stabilizer == [state |-> state, state_count |-> state_count,
               last_state |-> last_state, last_redlight_wp |-> last_redlight_wp]

(* --------------------------- WaypointsWrapper -------------------------- *)

Dist2(p, q) == (p[1] - q[1]) * (p[1] - q[1]) + (p[2] - q[2]) * (p[2] - q[2])

\* WaypointsWrapper.get_closest_waypoint_to: the 0-based index of the
\* waypoint nearest to the point, the lowest such index on a tie.
get_closest_waypoint_to(wps, p) ==
    (CHOOSE i \in 1..Len(wps) :
        \A j \in 1..Len(wps) :
            \/ Dist2(wps[i], p) < Dist2(wps[j], p)
            \/ Dist2(wps[i], p) = Dist2(wps[j], p) /\ i <= j) - 1

(* ------------------------ process_traffic_lights ----------------------- *)

get_light_state(light) == light

\* IsCloser without the test that the line is ahead of the car
IsCloser_any_gap(step_gap, closest_step_gap) ==
    step_gap < closest_step_gap

\* IsCloser with a later light of the same gap replacing an earlier one
IsCloser_or_equal(step_gap, closest_step_gap) ==
    step_gap >= 0 /\ step_gap <= closest_step_gap

\* line 148
IsCloser(step_gap, closest_step_gap) ==
    step_gap >= 0 /\ step_gap < closest_step_gap

\* lines 138-152: one iteration of the loop over enumerate(self.lights);
\* i is the 1-based position of the light.
LoopBody(acc, i, light, car_wp_idx, wrapper, config) ==
    LET line == config[i]
        tmp_line_wp_idx == get_closest_waypoint_to(wrapper, line)
        step_gap == tmp_line_wp_idx - car_wp_idx
    IN  IF IsCloser(step_gap, acc.closest_step_gap)
        THEN [closest_step_gap |-> step_gap,
              closest_light |-> Some(light),
              line_wp_idx |-> Some(tmp_line_wp_idx),
              raised |-> acc.raised]
        ELSE acc

\* lines 136-152: stop_line_positions[i] raises IndexError past the end of
\* the configured list, which ends the loop and the call.
RECURSIVE Loop(_, _, _, _, _, _)
Loop(acc, i, lts, car_wp_idx, wrapper, config) ==
    IF i > Len(lts) THEN acc
    ELSE IF i > Len(config) THEN [acc EXCEPT !.raised = "IndexError"]
    ELSE Loop(LoopBody(acc, i, lts[i], car_wp_idx, wrapper, config),
              i + 1, lts, car_wp_idx, wrapper, config)

Returned(wp, st) == [kind |-> "ok", wp |-> wp, state |-> st]
Raised(e) == [kind |-> e, wp |-> -1, state |-> UNKNOWN]

\* lines 129-158, the pose being known
ResolveKnownPose(p, wpts, wrapper, lts, config) ==
    IF wrapper = None THEN Raised("AttributeError")
    ELSE IF wpts = None THEN Raised("AttributeError")
    ELSE
        LET car_wp_idx == get_closest_waypoint_to(wrapper[1], p[1])
            acc0 == [closest_step_gap |-> Len(wpts[1]),
                     closest_light |-> None,
                     line_wp_idx |-> None,
                     raised |-> "no"]
            acc == Loop(acc0, 1, lts, car_wp_idx, wrapper[1], config)
        IN  IF acc.raised # "no" THEN Raised(acc.raised)
            ELSE IF acc.closest_light # None
                 THEN Returned(acc.line_wp_idx[1], get_light_state(acc.closest_light[1]))
                 ELSE Returned(-1, UNKNOWN)

\* process_traffic_lights that also tests for the route before using it
process_traffic_lights_route_test(p, wpts, wrapper, lts, config) ==
    IF p = None \/ wrapper = None THEN Returned(-1, UNKNOWN)
    ELSE ResolveKnownPose(p, wpts, wrapper, lts, config)

\* lines 123-158
process_traffic_lights(p, wpts, wrapper, lts, config) ==
    IF p = None THEN Returned(-1, UNKNOWN)
    ELSE ResolveKnownPose(p, wpts, wrapper, lts, config)

\* the call of line 77 on the node's current fields
Resolve == process_traffic_lights(pose, waypoints, waypoints_wrapper, lights,
                                  stop_line_positions)

(* ------------------------------- image_cb ------------------------------ *)

\* IsStable one observation early
IsStable_early(count) == count >= STATE_COUNT_THRESHOLD - 1

\* IsStable one observation late
IsStable_late(count) == count > STATE_COUNT_THRESHOLD

\* line 89
IsStable(count) == count >= STATE_COUNT_THRESHOLD

\* ResetBranch that keeps the count of the previous state
ResetBranch_keep_count(s, st) ==
    [s EXCEPT !.state = st] @@ [published |-> <<>>]

\* ResetBranch that clears the committed decision at the first differing frame
ResetBranch_clear(s, st) ==
    [s EXCEPT !.state_count = 0, !.state = st,
              !.last_state = st, !.last_redlight_wp = -1]
        @@ [published |-> <<>>]

\* lines 86-88: nothing is published
ResetBranch(s, st) ==
    [s EXCEPT !.state_count = 0, !.state = st] @@ [published |-> <<>>]

\* CommitBranch that commits the candidate waypoint whatever the state
CommitBranch_any_state(s, light_wp, st) ==
    [s EXCEPT !.last_state = s.state, !.last_redlight_wp = light_wp]
        @@ [published |-> <<light_wp>>]

\* CommitBranch that commits a RED state only and never clears
CommitBranch_red_only(s, light_wp, st) ==
    IF st = RED
    THEN [s EXCEPT !.last_state = s.state, !.last_redlight_wp = light_wp]
            @@ [published |-> <<light_wp>>]
    ELSE s @@ [published |-> <<s.last_redlight_wp>>]

\* CommitBranch that forgets to record the committed state
CommitBranch_no_last_state(s, light_wp, st) ==
    LET wp == IF st = RED THEN light_wp ELSE -1
    IN  [s EXCEPT !.last_redlight_wp = wp] @@ [published |-> <<wp>>]

\* CommitBranch that keeps a committed red-light waypoint while the state
\* stays RED
CommitBranch_sticky(s, light_wp, st) ==
    LET wp == IF st # RED THEN -1
              ELSE IF s.last_redlight_wp >= 0 THEN s.last_redlight_wp
              ELSE light_wp
    IN  [s EXCEPT !.last_state = s.state, !.last_redlight_wp = wp]
            @@ [published |-> <<wp>>]

\* lines 90-93
CommitBranch(s, light_wp, st) ==
    LET wp == IF st = RED THEN light_wp ELSE -1
    IN  [s EXCEPT !.last_state = s.state, !.last_redlight_wp = wp]
            @@ [published |-> <<wp>>]

\* RepublishBranch that publishes the unconfirmed candidate
RepublishBranch_candidate(s, light_wp, st) ==
    s @@ [published |-> <<IF st = RED THEN light_wp ELSE -1>>]

\* lines 94-96
RepublishBranch(s, light_wp, st) ==
    s @@ [published |-> <<s.last_redlight_wp>>]

\* line 97
Increment(s) == [s EXCEPT !.state_count = @ + 1]

\* lines 85-97
Stabilize(s, light_wp, st) ==
    Increment(IF s.state # st THEN ResetBranch(s, st)
              ELSE IF IsStable(s.state_count) THEN CommitBranch(s, light_wp, st)
              ELSE RepublishBranch(s, light_wp, st))

LastEmit == IF pub # <<>> THEN Some(pub[Len(pub)]) ELSE prevEmit

\* lines 67-97.  An exception raised by process_traffic_lights leaves
\* image_cb at line 77, before the stabilizer.  The image stored by lines
\* 75-76 is read by nothing (get_light_state returns light.state) and is not
\* kept.  A cycle that would take state_count past MaxCount is not taken.
image_cb ==
    LET r == Resolve
    IN  /\ pre' = Stabilizer
        /\ prevEmit' = LastEmit
        /\ outcome' = IF r.kind = "ok" THEN "ran" ELSE r.kind
        /\ UNCHANGED <<pose, waypoints, waypoints_wrapper, lights, stop_line_positions>>
        /\ UNCHANGED <<route_msg, snap>>
        /\ cycle = None
        /\ cycle' = None
        /\ IF r.kind = "ok"
           THEN LET n == Stabilize(Stabilizer, r.wp, r.state)
                IN  /\ n.state_count <= MaxCount
                    /\ state' = n.state
                    /\ state_count' = n.state_count
                    /\ last_state' = n.last_state
                    /\ last_redlight_wp' = n.last_redlight_wp
                    /\ pub' = n.published
                    /\ cand' = <<r.wp, r.state>>
                    /\ runLen' = IF cand # None /\ cand[2] # r.state THEN 1
                                 ELSE runLen + 1
                    /\ fresh' = (fresh /\ (cand = None \/ cand[2] = r.state))
           ELSE /\ pub' = <<>>
                /\ UNCHANGED <<state, state_count, last_state, last_redlight_wp,
                               cand, runLen, fresh>>

(* --------------------------- other callbacks --------------------------- *)

\* lines 57-58
pose_cb(msg) ==
    /\ pose' = Some(msg)
    /\ UNCHANGED <<waypoints, waypoints_wrapper, lights, stop_line_positions,
                   state, last_state, last_redlight_wp, state_count, obsVars,
                   threadVars>>

\* lines 60-62
waypoints_cb(msg) ==
    /\ waypoints' = Some(msg)
    /\ waypoints_wrapper' = Some(msg)
    /\ UNCHANGED <<pose, lights, stop_line_positions,
                   state, last_state, last_redlight_wp, state_count, obsVars,
                   threadVars>>

\* lines 64-65
traffic_cb(msg) ==
    /\ lights' = msg
    /\ UNCHANGED <<pose, waypoints, waypoints_wrapper, stop_line_positions,
                   state, last_state, last_redlight_wp, state_count, obsVars,
                   threadVars>>

(* ------------------- callbacks on their own threads -------------------- *)

\* line 61: waypoints_cb has assigned self.waypoints and is building the
\* WaypointsWrapper.
waypoints_cb_61(msg) ==
    /\ route_msg = None
    /\ waypoints' = Some(msg)
    /\ route_msg' = Some(msg)
    /\ UNCHANGED <<pose, waypoints_wrapper, lights, stop_line_positions,
                   state, last_state, last_redlight_wp, state_count, obsVars,
                   cycle, snap>>

\* line 62
waypoints_cb_62 ==
    /\ route_msg # None
    /\ waypoints_wrapper' = Some(route_msg[1])
    /\ route_msg' = None
    /\ UNCHANGED <<pose, waypoints, lights, stop_line_positions,
                   state, last_state, last_redlight_wp, state_count, obsVars,
                   cycle, snap>>

\* lines 135-158 with the car_wp_idx of line 129
ResolveAfterCar(car_wp_idx, wpts, wrapper, lts, config) ==
    IF wrapper = None \/ wpts = None THEN Raised("AttributeError")
    ELSE
        LET acc0 == [closest_step_gap |-> Len(wpts[1]),
                     closest_light |-> None,
                     line_wp_idx |-> None,
                     raised |-> "no"]
            acc == Loop(acc0, 1, lts, car_wp_idx, wrapper[1], config)
        IN  IF acc.raised # "no" THEN Raised(acc.raised)
            ELSE IF acc.closest_light # None
                 THEN Returned(acc.line_wp_idx[1], get_light_state(acc.closest_light[1]))
                 ELSE Returned(-1, UNKNOWN)

\* lines 67-129, up to the evaluation of self.pose.pose.position.x: with a
\* pose and a wrapper the call goes on at the second read of self.pose;
\* without one of them it ends as image_cb does.
image_cb_128 ==
    /\ cycle = None
    /\ IF pose = None \/ waypoints_wrapper = None
       THEN image_cb
       ELSE /\ cycle' = Some([at |-> "y", wrapper |-> waypoints_wrapper[1],
                              x |-> pose[1][1], x_of |-> pose[1],
                              car_wp_idx |-> -1])
            /\ UNCHANGED <<progVars, obsVars, route_msg, snap>>

\* line 129: self.pose.pose.position.y and the call of get_closest_waypoint_to
image_cb_129 ==
    /\ cycle # None
    /\ cycle[1].at = "y"
    /\ LET c == cycle[1]
       IN  /\ cycle' = Some([c EXCEPT !.at = "loop",
                               !.car_wp_idx = get_closest_waypoint_to(
                                                c.wrapper, <<c.x, pose[1][2]>>)])
           /\ snap' = Some([x_of |-> c.x_of, y_of |-> pose[1],
                            car_in |-> c.wrapper, length_of |-> None,
                            lines_in |-> None])
    /\ UNCHANGED <<progVars, obsVars, route_msg>>

\* lines 135-158 and 85-97: self.waypoints, self.lights and
\* self.waypoints_wrapper are read again; the rest of the call is taken in
\* one step.
image_cb_135 ==
    /\ cycle # None
    /\ cycle[1].at = "loop"
    /\ LET r == ResolveAfterCar(cycle[1].car_wp_idx, waypoints, waypoints_wrapper,
                                lights, stop_line_positions)
       IN  /\ pre' = Stabilizer
           /\ prevEmit' = LastEmit
           /\ outcome' = IF r.kind = "ok" THEN "ran" ELSE r.kind
           /\ UNCHANGED <<pose, waypoints, waypoints_wrapper, lights,
                          stop_line_positions, route_msg>>
           /\ cycle' = None
           /\ snap' = Some([snap[1] EXCEPT !.length_of = waypoints,
                                           !.lines_in = waypoints_wrapper])
           /\ IF r.kind = "ok"
              THEN LET n == Stabilize(Stabilizer, r.wp, r.state)
                   IN  /\ n.state_count <= MaxCount
                       /\ state' = n.state
                       /\ state_count' = n.state_count
                       /\ last_state' = n.last_state
                       /\ last_redlight_wp' = n.last_redlight_wp
                       /\ pub' = n.published
                       /\ cand' = <<r.wp, r.state>>
                       /\ runLen' = IF cand # None /\ cand[2] # r.state THEN 1
                                    ELSE runLen + 1
                       /\ fresh' = (fresh /\ (cand = None \/ cand[2] = r.state))
              ELSE /\ pub' = <<>>
                   /\ UNCHANGED <<state, state_count, last_state, last_redlight_wp,
                                  cand, runLen, fresh>>

(* ---------------------------- specification ---------------------------- *)

\* lines 50-53, and the observation of a run in which no image has arrived
InitStabilizer ==
    /\ state = UNKNOWN
    /\ last_state = UNKNOWN
    /\ last_redlight_wp = -1
    /\ state_count = 0
    /\ outcome = "none"
    /\ cand = None
    /\ pub = <<>>
    /\ pre = [state |-> UNKNOWN, state_count |-> 0,
              last_state |-> UNKNOWN, last_redlight_wp |-> -1]
    /\ prevEmit = None
    /\ runLen = 0
    /\ fresh = TRUE
    /\ route_msg = None
    /\ cycle = None
    /\ snap = None

\* lines 19-53
Init ==
    /\ pose = None
    /\ waypoints = None
    /\ waypoints_wrapper = None
    /\ lights = <<>>
    /\ stop_line_positions \in Configs
    /\ InitStabilizer

DeliverPose == \E msg \in DrivenPoses : pose_cb(msg)
DeliverRoute == \E msg \in Routes : waypoints_cb(msg)
DeliverLights == \E msg \in DrivenLights : traffic_cb(msg)

Next == DeliverPose \/ DeliverRoute \/ DeliverLights \/ image_cb

\* The node: callbacks and image cycles in any order.
Spec == Init /\ [][Next]_vars

\* The node when the first image arrives: any pose, route and light list
\* may have been delivered (or none), and no cycle has run.
InitResolver ==
    /\ pose \in {None} \cup {Some(p) : p \in Poses}
    /\ waypoints \in {None} \cup {Some(r) : r \in Routes}
    /\ waypoints_wrapper = waypoints
    /\ lights \in LightLists
    /\ stop_line_positions \in Configs
    /\ InitStabilizer

NextResolver == image_cb

\* Image cycles on every bounded pose, route, light list and configuration.
SpecResolver == InitResolver /\ [][NextResolver]_vars

\* The messages delivered while callbacks overlap (SpecThreads): two poses
\* that differ in x and in y, both routes, one red light.
ThreadPoses == {<<0, 0>>, <<2, 1>>}
ThreadLights == {<<RED>>}

ThreadPose == \E msg \in ThreadPoses : pose_cb(msg)
ThreadLight == \E msg \in ThreadLights : traffic_cb(msg)
ThreadRoute == \E msg \in Routes : waypoints_cb_61(msg)

NextThreads ==
    \/ ThreadPose
    \/ ThreadLight
    \/ ThreadRoute
    \/ waypoints_cb_62
    \/ image_cb_128
    \/ image_cb_129
    \/ image_cb_135

\* The node with each subscriber's callback on a thread of its own: pose,
\* route and light callbacks run between the statements of a running
\* image_cb, and image_cb between the two assignments of waypoints_cb.
SpecThreads == Init /\ [][NextThreads]_vars

TypeOK ==
    /\ pose \in {None} \cup {Some(p) : p \in Poses}
    /\ waypoints \in {None} \cup {Some(r) : r \in Routes}
    /\ waypoints_wrapper = waypoints
    /\ lights \in LightLists
    /\ stop_line_positions \in Configs
    /\ state \in LightStates
    /\ last_state \in LightStates
    /\ last_redlight_wp \in -1..(RouteLen - 1)
    /\ state_count \in 0..MaxCount
    /\ outcome \in {"none", "ran", "AttributeError", "IndexError"}
    /\ Len(pub) <= 1
    /\ runLen \in 0..MaxCount

(* ------------------------------- claims ------------------------------- *)

\* C1: the published value changes between -1 and a waypoint index (and
\* the committed last_redlight_wp does) only in a cycle whose candidate
\* state equals the candidate state of each of the STATE_COUNT_THRESHOLD
\* cycles before it, i.e. a cycle that is at least the
\* (STATE_COUNT_THRESHOLD + 1)-th of a run of equal candidate states.
C1_TransitionNeedsRun ==
    outcome = "ran" =>
        LET before == IF prevEmit = None THEN -1 ELSE prevEmit[1]
        IN  /\ (pub # <<>> /\ ((before = -1) # (pub[1] = -1)))
                => runLen >= STATE_COUNT_THRESHOLD + 1
            /\ ((pre.last_redlight_wp = -1) # (last_redlight_wp = -1))
                => runLen >= STATE_COUNT_THRESHOLD + 1

\* C1 witness: a cycle published a waypoint right after -1 had been published.
C1_Witness ==
    /\ outcome = "ran"
    /\ prevEmit = Some(-1)
    /\ pub # <<>>
    /\ pub[1] >= 0
    /\ runLen = STATE_COUNT_THRESHOLD + 1

\* C2 (as claimed): every cycle that runs the stabilizer publishes exactly
\* one value, and a cycle whose candidate state differs from self.state
\* publishes the last committed waypoint.
C2_EveryCycleEmits ==
    outcome = "ran" =>
        /\ Len(pub) = 1
        /\ cand[2] # pre.state => pub = <<pre.last_redlight_wp>>

\* C3: a cycle whose candidate state equals self.state while state_count is
\* below STATE_COUNT_THRESHOLD publishes the last_redlight_wp committed
\* before it and leaves it unchanged.
C3_UnstableRepublishes ==
    (outcome = "ran" /\ cand[2] = pre.state
        /\ pre.state_count < STATE_COUNT_THRESHOLD)
    => /\ pub = <<pre.last_redlight_wp>>
       /\ last_redlight_wp = pre.last_redlight_wp
       /\ last_state = pre.last_state

\* C3 witness: such a cycle had a RED candidate at a waypoint other than the
\* committed value.
C3_Witness ==
    /\ outcome = "ran"
    /\ cand[2] = pre.state
    /\ pre.state_count < STATE_COUNT_THRESHOLD
    /\ cand[2] = RED
    /\ cand[1] # pre.last_redlight_wp
    /\ pub = <<pre.last_redlight_wp>>

\* C4: from the (STATE_COUNT_THRESHOLD + 1)-th cycle of a run of equal
\* candidate states on, every cycle commits and publishes the cycle's
\* candidate waypoint if the state is RED and -1 otherwise.
C4_StableCommits ==
    (outcome = "ran" /\ runLen > STATE_COUNT_THRESHOLD)
    => LET wp == IF cand[2] = RED THEN cand[1] ELSE -1
       IN  /\ pub = <<wp>>
           /\ last_redlight_wp = wp
           /\ last_state = cand[2]

\* C4 witness: the (STATE_COUNT_THRESHOLD + 1)-th RED cycle in a row
\* published its waypoint, -1 being committed before.
C4_Witness ==
    /\ outcome = "ran"
    /\ runLen = STATE_COUNT_THRESHOLD + 1
    /\ cand[2] = RED
    /\ cand[1] >= 0
    /\ pre.last_redlight_wp = -1
    /\ pub = <<cand[1]>>

\* C5 (as claimed): when every cycle since the start had a RED candidate,
\* each of cycles 1..STATE_COUNT_THRESHOLD publishes -1 and cycle
\* STATE_COUNT_THRESHOLD + 1 publishes the candidate waypoint.
C5_RedFromStart ==
    (outcome = "ran" /\ fresh /\ cand[2] = RED)
    => /\ runLen <= STATE_COUNT_THRESHOLD => pub = <<-1>>
       /\ runLen = STATE_COUNT_THRESHOLD + 1 => pub = <<cand[1]>>

\* C6: a cycle whose candidate state differs from self.state sets self.state
\* to the candidate state and leaves state_count at 1 (0, then the increment
\* of line 97), whatever state_count was.
C6_ResetOnChange ==
    (outcome = "ran" /\ cand[2] # pre.state)
    => /\ state = cand[2]
       /\ state_count = 1

\* C6 witness: the state changed when state_count had reached the threshold.
C6_Witness ==
    /\ outcome = "ran"
    /\ cand[2] # pre.state
    /\ pre.state_count >= STATE_COUNT_THRESHOLD
    /\ state_count = 1

\* C7 (as claimed): a cycle that runs while no pose or no route has been
\* received publishes nothing and leaves the stabilizer fields unchanged.
C7_SkipWhenNotReady ==
    (outcome # "none" /\ (pose = None \/ waypoints = None))
    => /\ pub = <<>>
       /\ Stabilizer = pre

\* C7 (amended): a cycle without a pose is not skipped: (-1, UNKNOWN) goes
\* through the stabilizer, -1 is published and state_count grows by one.  A
\* cycle with a pose and without a route raises before the stabilizer:
\* nothing is published and the stabilizer fields are unchanged.
C7_NotReadyCycles ==
    [][image_cb =>
        /\ pose = None =>
            /\ outcome' = "ran"
            /\ cand' = <<-1, UNKNOWN>>
            /\ pub' = <<-1>>
            /\ state_count' = state_count + 1
            /\ UNCHANGED <<state, last_state, last_redlight_wp>>
        /\ (pose # None /\ waypoints = None) =>
            /\ outcome' = "AttributeError"
            /\ pub' = <<>>
            /\ UNCHANGED <<state, state_count, last_state, last_redlight_wp>>
      ]_vars

\* C7 witness: cycles without a pose have published -1, and then a cycle with
\* a pose and without a route has raised.
C7_Witness ==
    /\ outcome = "AttributeError"
    /\ waypoints = None
    /\ pre.state_count > 0
    /\ prevEmit = Some(-1)
    /\ pub = <<>>

\* C8: the waypoint index the resolver returns is never smaller than the
\* car's nearest waypoint index, it is the index of a configured stop line,
\* and when every stop line has a smaller index than the car the resolver
\* returns (-1, UNKNOWN): the gap is not taken modulo the route length.
C8_NeverBehind ==
    (outcome = "ran" /\ pose # None)
    => LET car == get_closest_waypoint_to(waypoints_wrapper[1], pose[1])
           idx(i) == get_closest_waypoint_to(waypoints_wrapper[1],
                                             stop_line_positions[i])
           lines == 1..Len(stop_line_positions)
       IN  /\ cand[1] # -1 =>
                /\ cand[1] >= car
                /\ \E i \in lines : idx(i) = cand[1]
           /\ (\A i \in lines : idx(i) < car) => cand = <<-1, UNKNOWN>>

\* C8 witness: the car is past every stop line, each of which has a light,
\* and the cycle's candidate is (-1, UNKNOWN).
C8_Witness ==
    /\ outcome = "ran"
    /\ pose # None
    /\ Len(lights) = Len(stop_line_positions)
    /\ \A i \in 1..Len(stop_line_positions) :
          get_closest_waypoint_to(waypoints_wrapper[1], stop_line_positions[i])
            < get_closest_waypoint_to(waypoints_wrapper[1], pose[1])
    /\ cand = <<-1, UNKNOWN>>

\* C9: with one light per stop line, the resolver returns the stop line of
\* the least gap >= 0, the first such in the list on a tie, together with
\* the state of the light at the same list position; (-1, UNKNOWN) when no
\* stop line has a gap >= 0.
C9_NearestAhead ==
    (outcome = "ran" /\ pose # None /\ Len(lights) = Len(stop_line_positions))
    => LET car == get_closest_waypoint_to(waypoints_wrapper[1], pose[1])
           gap(i) == get_closest_waypoint_to(waypoints_wrapper[1],
                                             stop_line_positions[i]) - car
           ahead == {i \in 1..Len(stop_line_positions) : gap(i) >= 0}
       IN  IF ahead = {} THEN cand = <<-1, UNKNOWN>>
           ELSE \E k \in ahead :
                   /\ \A j \in ahead : gap(k) <= gap(j)
                   /\ \A j \in ahead : gap(j) = gap(k) => k <= j
                   /\ cand = <<car + gap(k), lights[k]>>

\* C9 witness: two stop lines ahead of the car have the same gap and lights
\* in different states, and the first of the two gave the candidate.
C9_Witness ==
    /\ outcome = "ran"
    /\ pose # None
    /\ Len(lights) = 2
    /\ Len(stop_line_positions) = 2
    /\ lights[1] # lights[2]
    /\ LET car == get_closest_waypoint_to(waypoints_wrapper[1], pose[1])
           idx(i) == get_closest_waypoint_to(waypoints_wrapper[1],
                                             stop_line_positions[i])
       IN  idx(1) = idx(2) /\ idx(1) > car /\ cand = <<idx(1), lights[1]>>

\* C10 (as claimed): a cycle in which the resolver reaches its loop (a pose,
\* a route and at least one light have been received) with a light list and
\* a stop-line list of different lengths fails with an error and feeds
\* nothing to the stabilizer.
C10_MismatchRaises ==
    (outcome # "none" /\ pose # None /\ waypoints # None /\ lights # <<>>
        /\ Len(lights) # Len(stop_line_positions))
    => outcome = "IndexError"

\* C11 (as claimed): every value a cycle publishes is -1 or an index that is
\* not smaller than the car's nearest waypoint index in that cycle.
C11_EmittedIsUpcoming ==
    [][(image_cb /\ pub' # <<>> /\ pub'[1] # -1)
        => /\ pose # None
           /\ waypoints_wrapper # None
           /\ pub'[1] >= get_closest_waypoint_to(waypoints_wrapper[1], pose[1])
      ]_vars

\* C11 (amended): every value a cycle publishes is -1, or the waypoint
\* committed by an earlier cycle, republished, or the index of a stop line
\* whose light is RED in this cycle and which is not behind the car's nearest
\* waypoint index in this cycle.
C11_EmittedIsCommittedOrUpcoming ==
    [][(image_cb /\ pub' # <<>>)
        => \/ pub'[1] = -1
           \/ pub'[1] = last_redlight_wp
           \/ /\ pose # None
              /\ waypoints_wrapper # None
              /\ cand' = <<pub'[1], RED>>
              /\ LET car == get_closest_waypoint_to(waypoints_wrapper[1], pose[1])
                     idx(i) == get_closest_waypoint_to(waypoints_wrapper[1],
                                                       stop_line_positions[i])
                 IN  \E i \in 1..Len(lights) :
                        /\ i <= Len(stop_line_positions)
                        /\ lights[i] = RED
                        /\ idx(i) = pub'[1]
                        /\ idx(i) >= car
      ]_vars

\* C11 witness: the car is past every stop line, the cycle's candidate is
\* (-1, UNKNOWN), and the cycle republished a committed waypoint that is
\* behind the car.
C11_Witness ==
    /\ outcome = "ran"
    /\ cand = <<-1, UNKNOWN>>
    /\ pub # <<>>
    /\ pub[1] >= 0
    /\ pose # None
    /\ waypoints_wrapper # None
    /\ pub[1] < get_closest_waypoint_to(waypoints_wrapper[1], pose[1])

\* C12: last_redlight_wp and last_state change only in a cycle whose
\* candidate state equals self.state while state_count has reached
\* STATE_COUNT_THRESHOLD: not in a cycle that resets, not in a cycle that is
\* not yet stable, not in pose_cb, waypoints_cb or traffic_cb.
C12_DecisionOnlyOnCommit ==
    [][(last_redlight_wp' # last_redlight_wp \/ last_state' # last_state)
        => /\ outcome' = "ran"
           /\ cand'[2] = state
           /\ state_count >= STATE_COUNT_THRESHOLD
           /\ state_count' = state_count + 1
           /\ UNCHANGED <<pose, waypoints, waypoints_wrapper, lights>>
      ]_vars

\* C12 witness: a cycle reset the counter while a red-light waypoint was
\* committed, and the committed waypoint and state are still there.
C12_Witness ==
    /\ outcome = "ran"
    /\ cand[2] # pre.state
    /\ pre.last_redlight_wp >= 0
    /\ pre.last_state = RED
    /\ last_redlight_wp = pre.last_redlight_wp
    /\ last_state = pre.last_state
    /\ pub = <<>>

\* C14: a cycle with a pose and a route in which no light has been received,
\* or every stop line that has a light is behind the car, feeds (-1, UNKNOWN)
\* to the stabilizer; and a cycle with an UNKNOWN candidate that starts with a
\* red-light waypoint committed keeps it through the first
\* STATE_COUNT_THRESHOLD cycles of the UNKNOWN run and clears it to -1 from
\* the next one on.
C14_ClearedAfterUnknownPersists ==
    [][image_cb =>
        /\ (/\ pose # None
            /\ waypoints_wrapper # None
            /\ Len(lights) <= Len(stop_line_positions)
            /\ \A i \in 1..Len(lights) :
                  get_closest_waypoint_to(waypoints_wrapper[1], stop_line_positions[i])
                    < get_closest_waypoint_to(waypoints_wrapper[1], pose[1]))
           => (outcome' = "ran" /\ cand' = <<-1, UNKNOWN>>)
        /\ (outcome' = "ran" /\ cand'[2] = UNKNOWN /\ last_redlight_wp >= 0)
           => /\ runLen' <= STATE_COUNT_THRESHOLD
                    => last_redlight_wp' = last_redlight_wp
              /\ runLen' > STATE_COUNT_THRESHOLD
                    => (last_redlight_wp' = -1 /\ pub' = <<-1>>)
      ]_vars

\* C14 witness: the car is past every stop line, and the
\* (STATE_COUNT_THRESHOLD + 1)-th (-1, UNKNOWN) cycle in a row cleared a
\* committed red-light waypoint.
C14_Witness ==
    /\ outcome = "ran"
    /\ cand = <<-1, UNKNOWN>>
    /\ runLen = STATE_COUNT_THRESHOLD + 1
    /\ pre.last_redlight_wp >= 0
    /\ pre.last_state = RED
    /\ last_redlight_wp = -1
    /\ pub = <<-1>>
    /\ pose # None
    /\ waypoints_wrapper # None
    /\ lights # <<>>
    /\ \A i \in 1..Len(stop_line_positions) :
          get_closest_waypoint_to(waypoints_wrapper[1], stop_line_positions[i])
            < get_closest_waypoint_to(waypoints_wrapper[1], pose[1])

\* C15 (as claimed): every value a cycle publishes is -1 or an index into the
\* route the node holds when it publishes.
C15_EmittedIndexInRoute ==
    [][(image_cb /\ pub' # <<>> /\ pub'[1] # -1)
        => /\ waypoints # None
           /\ pub'[1] >= 0
           /\ pub'[1] < Len(waypoints[1])
      ]_vars

\* C16: last_redlight_wp is a waypoint index exactly when last_state is RED,
\* and -1 otherwise.
C16_DecisionAgrees ==
    /\ last_redlight_wp >= 0 <=> last_state = RED
    /\ last_state # RED => last_redlight_wp = -1

\* C16 witness: a cycle committed GREEN and cleared a committed red-light
\* waypoint.
C16_Witness ==
    /\ outcome = "ran"
    /\ pre.last_state = RED
    /\ pre.last_redlight_wp >= 0
    /\ last_state = GREEN
    /\ last_redlight_wp = -1

\* C17: a cycle with a RED candidate, self.state RED and state_count at or
\* above STATE_COUNT_THRESHOLD, whose candidate waypoint differs from the
\* committed one, commits and publishes the candidate waypoint in that cycle
\* and goes on counting.
C17_KeyedOnStateOnly ==
    (outcome = "ran" /\ cand[2] = RED /\ pre.state = RED
        /\ pre.state_count >= STATE_COUNT_THRESHOLD
        /\ cand[1] # pre.last_redlight_wp)
    => /\ pub = <<cand[1]>>
       /\ last_redlight_wp = cand[1]
       /\ last_state = RED
       /\ state_count = pre.state_count + 1

\* C17 witness: a red-light waypoint was committed, and the cycle replaced it
\* by the waypoint of another stop line.
C17_Witness ==
    /\ outcome = "ran"
    /\ cand[2] = RED
    /\ pre.state = RED
    /\ pre.last_state = RED
    /\ pre.last_redlight_wp >= 0
    /\ cand[1] >= 0
    /\ cand[1] # pre.last_redlight_wp
    /\ pub = <<cand[1]>>
    /\ state_count > STATE_COUNT_THRESHOLD + 1

\* C13 (as claimed): with callbacks delivered while a cycle runs, the route
\* whose length starts closest_step_gap (self.waypoints), the route indexed
\* for the car and the route indexed for the stop lines
\* (self.waypoints_wrapper) are one delivery, and the car's x and y are read
\* from one pose delivery.
C13_ConsistentSnapshot ==
    (snap # None /\ cycle = None)
    => /\ snap[1].x_of = snap[1].y_of
       /\ snap[1].length_of = Some(snap[1].car_in)
       /\ snap[1].lines_in = Some(snap[1].car_in)

====
